---- MODULE Spec2Model ----
(***************************************************************************)
(* ThinkDeck: the study session controller (FlashcardViewer), the App      *)
(* shell that mounts it, and the localStorage persistence adapter.         *)
(*                                                                         *)
(* Indices are 0-based as in the source; a pile is a TLA+ sequence, so the *)
(* card at source index i is pile[i + 1].  A card is represented by its    *)
(* identifier; card content is immutable in every code path modelled.      *)
(***************************************************************************)
EXTENDS Integers, Sequences, FiniteSets, TLC

VARIABLES
    \* FlashcardViewer state (useState hooks, FlashcardViewer.tsx 11-23)
    currentIndex, isFlipped, showGrid, activeFolder,
    reviewCards, nailedCards, studyCards, gridFlippedCards,
    isDragging, dragOffset, hoveredFolder,
    \* browser side of a drag gesture
    gestureMoved,   \* the pointer has been beyond the threshold in the gesture
                    \* that is in progress or whose click is awaited
    listeners,      \* document mousemove/mouseup listener pairs, in registration order
    timers,         \* pending 50 ms drag-state resets of the mounted viewer
    clickPending,   \* a click event on the card follows the last mouseup
    \* App state (App useState hooks)
    decks, currentView, selectedDeck, appLoaded,
    \* localStorage item 'flashcard_decks'
    store,
    \* observation of calls that leave the component
    deckUpdateCalls,  \* number of invocations of the onDeckUpdate callback
    loadResult,       \* value returned by the last direct loadDecks() call
    raised,           \* an exception left the last storage call
    prevOp,           \* the storage call before the last one
    lastOp,           \* the last handler that ran, with its inputs
    \* App state of the import view (App useState hooks)
    isLoading, uploadStatus,
    uploads,          \* handleFileUpload calls waiting for parseFile, oldest first
    \* observation of the file importer and of exportDeck
    importFile,       \* the file handed to the last parseFile call
    importResult,     \* what the promise of that call settled with
    rowsExamined,     \* data rows that call looked at
    nextId,           \* number of identifiers generateId has handed out
    exported          \* the text returned by the last exportDeck call

viewerVars == <<currentIndex, isFlipped, showGrid, activeFolder,
                reviewCards, nailedCards, studyCards, gridFlippedCards>>
dragVars == <<isDragging, dragOffset, hoveredFolder, gestureMoved>>
gestureVars == <<listeners, timers, clickPending>>
appVars == <<decks, currentView, selectedDeck, appLoaded>>
importVars == <<isLoading, uploadStatus, uploads, importFile, importResult,
                rowsExamined, nextId, exported>>
vars == <<viewerVars, dragVars, gestureVars, appVars, store,
          deckUpdateCalls, loadResult, raised, prevOp, lastOp, importVars>>

----------------------------------------------------------------------------
(* Bounds *)

MaxDuplicates == 1   \* entries in the three piles beyond the size of the deck
MaxGestures == 1     \* presses not yet released plus delayed resets not yet run
MaxPresses == 2      \* the same, where a press may follow a press
MaxIds == 4          \* identifiers handed out by generateId

----------------------------------------------------------------------------
(* Data *)

NoDeck == [id |-> "none", name |-> "", cards |-> <<>>, createdAt |-> [t |-> "Date", ms |-> 0]]

\* A Date in memory and its JSON form (an ISO string) on disk.
DateOf(ms) == [t |-> "Date", ms |-> ms]
DateToJSON(d) == [t |-> "str", ms |-> d.ms]
NewDate(s) == [t |-> "Date", ms |-> s.ms]

Deck(id, name, cards, ms) ==
    [id |-> id, name |-> name, cards |-> cards, createdAt |-> DateOf(ms)]
DeckA == Deck("dA", "A", <<"a1", "a2", "a3">>, 1)
DeckB == Deck("dB", "B", <<"b1", "b2">>, 2)
DeckC == Deck("dC", "C", <<"c1">>, 2)
DeckE == Deck("dE", "E", <<>>, 3)
\* DeckA edited: same identifier, other content
DeckA2 == Deck("dA", "A2", <<"a3", "a1">>, 1)

Range(s) == {s[i] : i \in DOMAIN s}

RECURSIVE SelectSeqIdx(_, _, _)
\* s.filter((_, index) => Keep(index)) with 0-based index; Keep is a set of kept indices
SelectSeqIdx(s, keep, i) ==
    IF i >= Len(s) THEN <<>>
    ELSE (IF i \in keep THEN <<s[i + 1]>> ELSE <<>>) \o SelectSeqIdx(s, keep, i + 1)

----------------------------------------------------------------------------
(* Persistence adapter (storage module, reproduced in README.md 122-176) *)

\* Values of localStorage.getItem('flashcard_decks'), by what JSON.parse
\* makes of them: no item, text that does not parse, a JSON value that is
\* not an array, or an array of entries.  An entry with ok = FALSE is one on
\* which the mapping in loadDecks throws (null, or no cards array).
NoItem == [kind |-> "none", items |-> <<>>]
UnparseableText == [kind |-> "text", items |-> <<>>]
NotArrayJSON == [kind |-> "notarray", items |-> <<>>]
BadEntry == [ok |-> FALSE, id |-> "bad", name |-> "", cards |-> <<>>,
             createdAt |-> DateToJSON(DateOf(0))]

\* JSON.stringify of one deck: the Date becomes a string
DeckToJSON(d) == [ok |-> TRUE, id |-> d.id, name |-> d.name, cards |-> d.cards,
                  createdAt |-> DateToJSON(d.createdAt)]
JSONStringify(ds) == [kind |-> "array", items |-> [i \in DOMAIN ds |-> DeckToJSON(ds[i])]]

\* the mapping of loadDecks: the date string is turned into a Date again
ReviveDeck(e) == [id |-> e.id, name |-> e.name, cards |-> e.cards,
                  createdAt |-> NewDate(e.createdAt)]

\* TRUE when the try block of loadDecks throws
LoadThrows(s) ==
    \/ s.kind \in {"text", "notarray"}
    \/ s.kind = "array" /\ \E i \in DOMAIN s.items : ~s.items[i].ok

loadDecks(s) ==
    IF s.kind = "none" THEN <<>>
    ELSE IF LoadThrows(s) THEN <<>>
    ELSE [i \in DOMAIN s.items |-> ReviveDeck(s.items[i])]

\* saveDecks that writes again, with success, after a write that failed
saveDecks_retry(s, ds, writeOk) == JSONStringify(ds)

\* writeOk = FALSE: localStorage.setItem throws and the catch swallows it
saveDecks(s, ds, writeOk) == IF writeOk THEN JSONStringify(ds) ELSE s

\* decks.findIndex(d => d.id === id), 0-based, -1 when absent
findIndex(ds, id) ==
    IF \E i \in DOMAIN ds : ds[i].id = id
    THEN (CHOOSE i \in DOMAIN ds : ds[i].id = id /\ \A j \in 1..(i - 1) : ds[j].id # id) - 1
    ELSE -1

\* saveDeck without the lookup: the deck is always pushed
saveDeck_alwaysPush(s, deck, writeOk) ==
    saveDecks(s, Append(loadDecks(s), deck), writeOk)

saveDeck(s, deck, writeOk) ==
    LET ds == loadDecks(s)
        existingIndex == findIndex(ds, deck.id)
        updated == IF existingIndex >= 0
                   THEN [ds EXCEPT ![existingIndex + 1] = deck]
                   ELSE Append(ds, deck)
    IN saveDecks(s, updated, writeOk)

\* deleteDeck with the filter inverted
deleteDeck_keepMatch(s, deckId, writeOk) ==
    saveDecks(s, SelectSeq(loadDecks(s), LAMBDA d : d.id = deckId), writeOk)

deleteDeck(s, deckId, writeOk) ==
    LET ds == loadDecks(s)
        filteredDecks == SelectSeq(ds, LAMBDA d : d.id # deckId)
    IN saveDecks(s, filteredDecks, writeOk)

----------------------------------------------------------------------------
(* Texts                                                                   *)
(*                                                                         *)
(* A text is a sequence of tokens.  The characters that the importer and   *)
(* the exporter treat specially are tokens of their own; every other token *)
(* is a word, a run of characters none of which is special.                *)

QUOTE == "\""
COMMA == ","
NEWLINE == "\n"
SPACE == " "
DOT == "."
Whitespace == {SPACE, NEWLINE}

\* String.prototype.toLowerCase, word by word
LowerWord(w) ==
    CASE w = "Question" -> "question"
      [] w = "Answer" -> "answer"
      [] w = "ImageUrl" -> "imageurl"
      [] w = "Q" -> "q"
      [] w = "A" -> "a"
      [] w = "CSV" -> "csv"
      [] w = "Xlsx" -> "xlsx"
      [] OTHER -> w
toLowerCase(s) == [i \in DOMAIN s |-> LowerWord(s[i])]

RECURSIVE trimStart(_)
trimStart(s) ==
    IF s # <<>> /\ Head(s) \in Whitespace THEN trimStart(Tail(s)) ELSE s

RECURSIVE trimEnd(_)
trimEnd(s) ==
    IF s # <<>> /\ s[Len(s)] \in Whitespace
    THEN trimEnd(SubSeq(s, 1, Len(s) - 1))
    ELSE s

\* String.prototype.trim
trim(s) == trimEnd(trimStart(s))

RECURSIVE indexOf(_, _, _)
\* position of the first tok at or after position i (1-based), 0 when absent
indexOf(t, tok, i) ==
    IF i > Len(t) THEN 0
    ELSE IF t[i] = tok THEN i
    ELSE indexOf(t, tok, i + 1)

RECURSIVE join(_, _)
\* Array.prototype.join
join(parts, sep) ==
    IF parts = <<>> THEN <<>>
    ELSE IF Len(parts) = 1 THEN parts[1]
    ELSE parts[1] \o <<sep>> \o join(Tail(parts), sep)

\* the word a substring test looks for occurs inside word w
WordIncludes(w, part) ==
    \/ w = part
    \/ <<w, part>> \in {<<"questions", "question">>, <<"feedback", "back">>,
                        <<"imageurl", "image">>}

\* String.prototype.includes for a lower-cased header cell
includes(h, part) == \E i \in DOMAIN h : WordIncludes(h[i], part)

----------------------------------------------------------------------------
(* Identifiers (generateId, README.md 231-233) *)

\* the identifier handed out when n identifiers have been handed out before;
\* Date.now() and Math.random() make each one new
generateId(n) == "g" \o ToString(n)

----------------------------------------------------------------------------
(* Files and spreadsheets *)

\* a value that is undefined
Undefined == <<"undefined">>

\* fault: "read" when the browser fails to read the file, "parse" when the
\* decoding library throws on its content, "none" otherwise
File(name, text, sheet, fault) ==
    [name |-> name, text |-> text, sheet |-> sheet, fault |-> fault]

NoFile == File(<<>>, <<>>, <<>>, "none")

\* no parseFile call has settled yet
NoResult == [success |-> FALSE, error |-> "", fileName |-> <<>>]

RECURSIVE afterLastDot(_)
\* name.split('.').pop(): the part behind the last dot, the whole name when
\* it has no dot
afterLastDot(name) ==
    IF indexOf(name, DOT, 1) = 0 THEN name
    ELSE afterLastDot(SubSeq(name, indexOf(name, DOT, 1) + 1, Len(name)))

fileExtension(file) == toLowerCase(afterLastDot(file.name))

allowedExtensions == {<<"csv">>, <<"xlsx">>, <<"xls">>}

validateFileType(file) == fileExtension(file) \in allowedExtensions

----------------------------------------------------------------------------
(* CSV decoding: Papa.parse(file, {header: true, skipEmptyLines: true,     *)
(* transformHeader}) as called by parseCSVFile                             *)

RECURSIVE unescape(_)
\* a doubled quote inside a quoted field stands for one quote
unescape(s) ==
    IF s = <<>> THEN <<>>
    ELSE IF Len(s) >= 2 /\ s[1] = QUOTE /\ s[2] = QUOTE
         THEN <<QUOTE>> \o unescape(SubSeq(s, 3, Len(s)))
         ELSE <<Head(s)>> \o unescape(Tail(s))

RECURSIVE spacesAt(_, _)
\* number of spaces at position i and after it
spacesAt(t, i) ==
    IF i <= Len(t) /\ t[i] = SPACE THEN 1 + spacesAt(t, i + 1) ELSE 0

\* spaces between a closing quote and the delimiter or newline behind them
spacesBefore(t, i) ==
    IF i + spacesAt(t, i) <= Len(t) /\ t[i + spacesAt(t, i)] \in {COMMA, NEWLINE}
    THEN spacesAt(t, i)
    ELSE 0

RECURSIVE closingQuote(_, _)
\* position of the quote that closes a quoted field, searched from position
\* from on; 0 when the field is never closed.  A quote followed by a quote
\* is data, and so is a quote followed by anything but a delimiter, a
\* newline or the end of the text.
closingQuote(t, from) ==
    LET q == indexOf(t, QUOTE, from)
    IN IF q = 0 THEN 0
       ELSE IF q = Len(t) THEN q
       ELSE IF t[q + 1] = QUOTE THEN closingQuote(t, q + 2)
       ELSE IF t[q + 1 + spacesBefore(t, q + 1)] \in {COMMA, NEWLINE} THEN q
       ELSE closingQuote(t, q + 2)

RECURSIVE parseRecords(_, _, _)
\* the records of text t from position c on; row holds the fields already
\* read of the record that c is in
parseRecords(t, c, row) ==
    IF c <= Len(t) /\ t[c] = QUOTE
    THEN LET q == closingQuote(t, c + 1)
             value == unescape(SubSeq(t, c + 1, q - 1))
             e == q + 1 + spacesBefore(t, q + 1)
         IN IF q = 0 THEN <<Append(row, SubSeq(t, c + 1, Len(t)))>>
            ELSE IF q = Len(t) THEN <<Append(row, value)>>
            ELSE IF t[e] = COMMA THEN parseRecords(t, e + 1, Append(row, value))
            ELSE <<Append(row, value)>> \o parseRecords(t, e + 1, <<>>)
    ELSE LET d == indexOf(t, COMMA, c)
             n == indexOf(t, NEWLINE, c)
         IN IF d # 0 /\ (d < n \/ n = 0)
            THEN parseRecords(t, d + 1, Append(row, SubSeq(t, c, d - 1)))
            ELSE IF n # 0
            THEN <<Append(row, SubSeq(t, c, n - 1))>> \o parseRecords(t, n + 1, <<>>)
            ELSE <<Append(row, SubSeq(t, c, Len(t)))>>

\* skipEmptyLines: a line without any character is dropped
nonEmptyRecords(t) == SelectSeq(parseRecords(t, 1, <<>>), LAMBDA r : r # <<(<<>>)>>)

\* transformHeader: (header) => header.toLowerCase().trim()
transformHeader(header) == trim(toLowerCase(header))

\* the object Papa builds for one record under the header fields; a field
\* behind the last header is not reachable under a header name
rowObject(fields, record) ==
    LET cols == {j \in DOMAIN fields : j <= Len(record)}
        last(k) == CHOOSE j \in cols : fields[j] = k /\ \A i \in cols : fields[i] = k => i <= j
    IN [k \in {fields[j] : j \in cols} |-> record[last(k)]]

\* result.data
csvData(t) ==
    LET records == nonEmptyRecords(t)
        fields == [j \in DOMAIN records[1] |-> transformHeader(records[1][j])]
    IN IF records = <<>> THEN <<>>
       ELSE [i \in 1..(Len(records) - 1) |-> rowObject(fields, records[i + 1])]

----------------------------------------------------------------------------
(* File importer (fileParser, src/unnamed/part_000 6-214) *)

Card(id, question, answer, imageUrl) ==
    [id |-> id, question |-> question, answer |-> answer, imageUrl |-> imageUrl,
     correctCount |-> 0, incorrectCount |-> 0]

Failure(error, file) == [success |-> FALSE, error |-> error, fileName |-> file.name]
Success(cards, file) == [success |-> TRUE, cards |-> cards, fileName |-> file.name]

\* row.k of a row object: undefined and '' are both falsy
Column(row, k) == IF k \in DOMAIN row THEN row[k] ELSE <<>>

\* a || b || c || ''
FirstNonEmpty(a, b, c) == IF a # <<>> THEN a ELSE IF b # <<>> THEN b ELSE c

csvQuestion(row) ==
    FirstNonEmpty(Column(row, <<"question">>), Column(row, <<"q">>), Column(row, <<"front">>))
csvAnswer(row) ==
    FirstNonEmpty(Column(row, <<"answer">>), Column(row, <<"a">>), Column(row, <<"back">>))
csvImageUrl(row) ==
    FirstNonEmpty(Column(row, <<"imageurl">>), Column(row, <<"image">>), Column(row, <<"img">>))

\* x || undefined
OrUndefined(s) == IF s # <<>> THEN s ELSE Undefined

\* the loop of the complete callback; n identifiers were handed out before
RECURSIVE csvCards(_, _)
csvCards(data, n) ==
    IF data = <<>> THEN <<>>
    ELSE LET row == Head(data)
         IN IF trim(csvQuestion(row)) # <<>> /\ trim(csvAnswer(row)) # <<>>
            THEN <<Card(generateId(n), trim(csvQuestion(row)), trim(csvAnswer(row)),
                        OrUndefined(trim(csvImageUrl(row))))>>
                 \o csvCards(Tail(data), n + 1)
            ELSE csvCards(Tail(data), n)

\* parseCSVFile that reports success for an empty card list as well
parseCSVFile_emptySuccess(file, n) ==
    IF file.fault = "read" THEN Failure("Failed to read CSV file", file)
    ELSE Success(csvCards(csvData(file.text), n), file)

\* what the promise of parseCSVFile resolves to
parseCSVFile(file, n) ==
    IF file.fault = "read" THEN Failure("Failed to read CSV file", file)
    ELSE LET cards == csvCards(csvData(file.text), n)
         IN IF Len(cards) = 0
            THEN Failure("No valid flashcards found", file)
            ELSE Success(cards, file)

\* rows that the loop of parseCSVFile looks at
csvRowsExamined(file) == IF file.fault = "read" THEN 0 ELSE Len(csvData(file.text))

\* jsonData of the first sheet is file.sheet: one sequence of cells per row,
\* Undefined where the sheet has no cell

\* String(cell || '')
CellText(cell) == IF cell = Undefined THEN <<>> ELSE cell

\* row[index] || '' as a text, index 0-based and -1 never passed
CellAt(row, index) ==
    IF index + 1 \in DOMAIN row THEN CellText(row[index + 1]) ELSE <<>>

\* jsonData[0].map(...): map skips the holes of the row and leaves them holes
headerRow(sheet) ==
    [j \in DOMAIN sheet[1] |->
        IF sheet[1][j] = Undefined THEN Undefined
        ELSE trim(toLowerCase(sheet[1][j]))]

isQuestionHeader(h) == includes(h, "question") \/ h = <<"q">> \/ includes(h, "front")
isAnswerHeader(h) == includes(h, "answer") \/ h = <<"a">> \/ includes(h, "back")
isImageHeader(h) == includes(h, "image") \/ includes(h, "img") \/ includes(h, "imageurl")

\* the position (1-based) at which findIndex stops: the first hole, on which
\* the callback throws, or the first match; 0 when it reaches the end
findStop(hs, Match(_)) ==
    IF \E j \in DOMAIN hs : hs[j] = Undefined \/ Match(hs[j])
    THEN CHOOSE j \in DOMAIN hs :
             /\ hs[j] = Undefined \/ Match(hs[j])
             /\ \A i \in 1..(j - 1) : ~(hs[i] = Undefined \/ Match(hs[i]))
    ELSE 0

findThrows(hs, Match(_)) == findStop(hs, Match) # 0 /\ hs[findStop(hs, Match)] = Undefined

\* headerRow.findIndex(...), 0-based, -1 when there is no match
columnIndex(hs, Match(_)) == findStop(hs, Match) - 1

questionIndex(sheet) == columnIndex(headerRow(sheet), isQuestionHeader)
answerIndex(sheet) == columnIndex(headerRow(sheet), isAnswerHeader)
imageIndex(sheet) == columnIndex(headerRow(sheet), isImageHeader)

\* one of the three findIndex calls throws; the second and third are reached
\* only when the calls before them returned
headerThrows(sheet) ==
    \/ findThrows(headerRow(sheet), isQuestionHeader)
    \/ findThrows(headerRow(sheet), isAnswerHeader)
    \/ findThrows(headerRow(sheet), isImageHeader)

excelQuestion(sheet, row) == trim(CellAt(row, questionIndex(sheet)))
excelAnswer(sheet, row) == trim(CellAt(row, answerIndex(sheet)))
excelImageUrl(sheet, row) ==
    IF imageIndex(sheet) # -1 THEN trim(CellAt(row, imageIndex(sheet))) ELSE <<>>

\* the loop over the data rows from row i (0-based) on
RECURSIVE excelCards(_, _, _)
excelCards(sheet, i, n) ==
    IF i >= Len(sheet) THEN <<>>
    ELSE LET row == sheet[i + 1]
         IN IF excelQuestion(sheet, row) # <<>> /\ excelAnswer(sheet, row) # <<>>
            THEN <<Card(generateId(n), excelQuestion(sheet, row), excelAnswer(sheet, row),
                        OrUndefined(excelImageUrl(sheet, row)))>>
                 \o excelCards(sheet, i + 1, n + 1)
            ELSE excelCards(sheet, i + 1, n)

\* the check of the two column indices left out
headerMissing_never(sheet) == FALSE

\* questionIndex === -1 || answerIndex === -1
headerMissing(sheet) == questionIndex(sheet) = -1 \/ answerIndex(sheet) = -1

\* the loop over the data rows is entered
excelReachesRows(file) ==
    /\ file.fault = "none"
    /\ Len(file.sheet) >= 2
    /\ ~headerThrows(file.sheet)
    /\ ~headerMissing(file.sheet)

\* what the promise of parseExcelFile resolves to
parseExcelFile(file, n) ==
    IF file.fault = "read" THEN Failure("Failed to read Excel file", file)
    ELSE IF file.fault = "parse" THEN Failure("Error parsing Excel file", file)
    ELSE IF Len(file.sheet) < 2
    THEN Failure("Excel file must have at least 2 rows (header and data)", file)
    ELSE IF headerThrows(file.sheet) THEN Failure("Error parsing Excel file", file)
    ELSE IF headerMissing(file.sheet)
    THEN Failure("Excel file must have \"question\" and \"answer\" columns", file)
    ELSE IF Len(excelCards(file.sheet, 1, n)) = 0
    THEN Failure("No valid flashcards found in Excel file", file)
    ELSE Success(excelCards(file.sheet, 1, n), file)

\* data rows that the loop of parseExcelFile looks at
excelRowsExamined(file) ==
    IF excelReachesRows(file) THEN Len(file.sheet) - 1 ELSE 0

\* the parser parseFile hands the file to, "none" for the default branch
parserOf(file) ==
    CASE fileExtension(file) = <<"csv">> -> "csv"
      [] fileExtension(file) \in {<<"xlsx">>, <<"xls">>} -> "excel"
      [] OTHER -> "none"

\* what the promise of parseFile settles with
parseFile(file, n) ==
    CASE parserOf(file) = "csv" -> parseCSVFile(file, n)
      [] parserOf(file) = "excel" -> parseExcelFile(file, n)
      [] OTHER -> Failure("Unsupported file format. Please upload a CSV or Excel file.", file)

rowsExaminedBy(file) ==
    CASE parserOf(file) = "csv" -> csvRowsExamined(file)
      [] parserOf(file) = "excel" -> excelRowsExamined(file)
      [] OTHER -> 0

\* identifiers generateId hands out during parseFile
idsGeneratedBy(file, n) ==
    IF parseFile(file, n).success THEN Len(parseFile(file, n).cards) ELSE 0

----------------------------------------------------------------------------
(* Export (exportDeck, README.md 235-244) *)

RECURSIVE doubleQuotes(_)
\* text.replace(/"/g, '""')
doubleQuotes(s) ==
    IF s = <<>> THEN <<>>
    ELSE (IF Head(s) = QUOTE THEN <<QUOTE, QUOTE>> ELSE <<Head(s)>>) \o doubleQuotes(Tail(s))

\* card.imageUrl || ''
ImageUrlOrEmpty(card) == IF card.imageUrl = Undefined THEN <<>> ELSE card.imageUrl

exportHeader == <<"Question", COMMA, "Answer", COMMA, "ImageUrl">>

exportLine(card) ==
    <<QUOTE>> \o doubleQuotes(card.question) \o <<QUOTE, COMMA, QUOTE>>
        \o doubleQuotes(card.answer) \o <<QUOTE, COMMA, QUOTE>>
        \o ImageUrlOrEmpty(card) \o <<QUOTE>>

exportDeck(deck) ==
    join(<<exportHeader>> \o [i \in DOMAIN deck.cards |-> exportLine(deck.cards[i])], NEWLINE)

----------------------------------------------------------------------------
(* Study session controller: derived values of one render *)

Abs(n) == IF n < 0 THEN -n ELSE n

DragThreshold == 10

\* Bounding boxes of the two folder elements and the points the pointer visits.
\* PressPoints lie on the card.
ReviewRect == [left |-> 0, right |-> 20, top |-> 0, bottom |-> 40]
NailedRect == [left |-> 60, right |-> 80, top |-> 0, bottom |-> 40]
Pt(x, y) == [x |-> x, y |-> y]
PressPoints == {Pt(25, 20)}
PointerPoints == {Pt(25, 20), Pt(25, 31), Pt(10, 20), Pt(70, 20)}

InRect(p, r) == p.x >= r.left /\ p.x <= r.right /\ p.y >= r.top /\ p.y <= r.bottom

getActiveCards ==
    CASE activeFolder = "review" -> reviewCards
      [] activeFolder = "nailed" -> nailedCards
      [] OTHER -> studyCards

\* getActiveCards()[currentIndex] is undefined when the index is out of range
HasCurrentCard == currentIndex < Len(getActiveCards)
currentCard == getActiveCards[currentIndex + 1]

\* the viewer is rendered by App
Mounted == currentView = "study" /\ selectedDeck # NoDeck
\* the render did not take the early return for an empty active pile
MainView == Mounted /\ Len(getActiveCards) # 0
CardView == MainView /\ ~showGrid
\* '.folder.review' and '.folder.nailed' are in the document
FoldersInDom ==
    Mounted /\ (CardView \/ (Len(getActiveCards) = 0 /\ activeFolder = "study"))

\* no mouse button is held and no click is being dispatched; the buttons,
\* folders and grid cards are operated with the mouse, so their onClick
\* handlers run in such a state only
Idle == appLoaded /\ listeners = <<>> /\ ~clickPending

ZeroOffset == Pt(0, 0)

\* state of a freshly mounted viewer whose deck prop has these cards
ViewerMount(cards) ==
    /\ currentIndex' = 0
    /\ isFlipped' = FALSE
    /\ showGrid' = FALSE
    /\ activeFolder' = "null"
    /\ reviewCards' = <<>>
    /\ nailedCards' = <<>>
    /\ studyCards' = cards
    /\ gridFlippedCards' = {}
    /\ isDragging' = FALSE
    /\ dragOffset' = ZeroOffset
    /\ hoveredFolder' = "null"
    /\ gestureMoved' = FALSE
    /\ timers' = 0

\* the viewer is not rendered: its state is gone
ViewerUnmount == ViewerMount(<<>>)

----------------------------------------------------------------------------
(* Study session controller: handlers *)

\* switchToFolder without setCurrentIndex(0)
switchToFolder_keepIndex(folder) ==
    /\ activeFolder' = folder
    /\ isFlipped' = FALSE
    /\ showGrid' = FALSE
    /\ UNCHANGED <<currentIndex, reviewCards, nailedCards, studyCards, gridFlippedCards>>

switchToFolder(folder) ==
    /\ activeFolder' = folder
    /\ currentIndex' = 0
    /\ isFlipped' = FALSE
    /\ showGrid' = FALSE
    /\ UNCHANGED <<reviewCards, nailedCards, studyCards, gridFlippedCards>>

toggleGridCard(cardId) ==
    /\ gridFlippedCards' = IF cardId \in gridFlippedCards
                           THEN gridFlippedCards \ {cardId}
                           ELSE gridFlippedCards \cup {cardId}
    /\ UNCHANGED <<currentIndex, isFlipped, showGrid, activeFolder,
                   reviewCards, nailedCards, studyCards>>

\* currentActiveCards.filter((_, index) => index !== currentIndex)
newActiveCards ==
    SelectSeqIdx(getActiveCards, (0..(Len(getActiveCards) - 1)) \ {currentIndex}, 0)

\* the pile setters of moveCardToFolder; of two calls to the same setter in one
\* handler the later one decides the next render
ReviewAfterMove(folder) ==
    IF activeFolder = "review" THEN newActiveCards
    ELSE IF folder = "review" THEN Append(reviewCards, currentCard)
    ELSE reviewCards

NailedAfterMove(folder) ==
    IF activeFolder = "nailed" THEN newActiveCards
    ELSE IF folder = "review" THEN nailedCards
    ELSE Append(nailedCards, currentCard)

StudyAfterMove ==
    IF activeFolder = "study" THEN newActiveCards ELSE studyCards

IndexAfterMove ==
    IF Len(newActiveCards) = 0 THEN 0
    ELSE IF currentIndex >= Len(newActiveCards) THEN 0
    ELSE currentIndex

moveCardToFolder(folder) ==
    IF ~HasCurrentCard
    THEN UNCHANGED viewerVars
    ELSE /\ reviewCards' = ReviewAfterMove(folder)
         /\ nailedCards' = NailedAfterMove(folder)
         /\ studyCards' = StudyAfterMove
         /\ currentIndex' = IndexAfterMove
         /\ isFlipped' = FALSE
         /\ UNCHANGED <<showGrid, activeFolder, gridFlippedCards>>

\* nextCard without the wrap-around
NextIndex_noWrap(prev, n) == prev + 1

NextIndex(prev, n) == (prev + 1) % n
PrevIndex(prev, n) == (prev - 1 + n) % n

\* the index and the face that nextCard / prevCard leave behind; both return
\* before any setter when the active pile is empty
IndexAfterNext ==
    IF Len(getActiveCards) = 0 THEN currentIndex
    ELSE NextIndex(currentIndex, Len(getActiveCards))

IndexAfterPrev ==
    IF Len(getActiveCards) = 0 THEN currentIndex
    ELSE PrevIndex(currentIndex, Len(getActiveCards))

FlippedAfterNav ==
    IF Len(getActiveCards) = 0 THEN isFlipped ELSE FALSE

nextCard ==
    /\ currentIndex' = IndexAfterNext
    /\ isFlipped' = FlippedAfterNav
    /\ UNCHANGED <<showGrid, activeFolder, reviewCards, nailedCards,
                   studyCards, gridFlippedCards>>

prevCard ==
    /\ currentIndex' = IndexAfterPrev
    /\ isFlipped' = FlippedAfterNav
    /\ UNCHANGED <<showGrid, activeFolder, reviewCards, nailedCards,
                   studyCards, gridFlippedCards>>

\* resetCards that forgets to empty the review pile
resetCards_keepReview ==
    /\ studyCards' = selectedDeck.cards
    /\ nailedCards' = <<>>
    /\ currentIndex' = 0
    /\ isFlipped' = FALSE
    /\ activeFolder' = "study"
    /\ showGrid' = FALSE
    /\ UNCHANGED <<reviewCards, gridFlippedCards>>

resetCards ==
    /\ studyCards' = selectedDeck.cards
    /\ reviewCards' = <<>>
    /\ nailedCards' = <<>>
    /\ currentIndex' = 0
    /\ isFlipped' = FALSE
    /\ activeFolder' = "study"
    /\ showGrid' = FALSE
    /\ UNCHANGED gridFlippedCards

\* cards rendered by the grid view (cards-grid has one section, Study Cards)
GridCards == Range(studyCards)

\* onClick of the grid card at this index of the rendered list
gridCardClick(index) ==
    /\ currentIndex' = index
    /\ showGrid' = FALSE
    /\ UNCHANGED <<isFlipped, activeFolder, reviewCards, nailedCards,
                   studyCards, gridFlippedCards>>

\* the comparison with >= in place of >
wasDragging_orEqual(start, p) ==
    Abs(p.x - start.x) >= DragThreshold \/ Abs(p.y - start.y) >= DragThreshold

\* handleMouseUp: Math.abs(deltaX) > 10 || Math.abs(deltaY) > 10
wasDragging(start, p) ==
    Abs(p.x - start.x) > DragThreshold \/ Abs(p.y - start.y) > DragThreshold

\* hit test of handleMouseMove / handleMouseUp: "none" when neither box is hit
HitFolder(p) ==
    IF InRect(p, ReviewRect) THEN "review"
    ELSE IF InRect(p, NailedRect) THEN "nailed"
    ELSE "none"

----------------------------------------------------------------------------
(* Study session controller: events *)

Op(name, arg, card) == [op |-> name, arg |-> arg, card |-> card]

\* onMouseDown of the card (handleMouseDown up to the listener registration),
\* while fewer than max presses and delayed resets are outstanding
Press(p, max) ==
    /\ appLoaded /\ ~clickPending
    /\ CardView /\ HasCurrentCard
    /\ timers + Len(listeners) < max
    /\ isDragging' = FALSE
    /\ dragOffset' = ZeroOffset
    /\ gestureMoved' = FALSE
    /\ listeners' = Append(listeners, p)
    /\ lastOp' = Op("mouseDown", "", "")
    /\ UNCHANGED <<viewerVars, hoveredFolder, timers, clickPending, appVars,
                   store, deckUpdateCalls, loadResult, raised, prevOp, importVars>>

MouseDown(p) == Press(p, MaxGestures)

\* a press while an earlier press has not seen its release (another button,
\* or a release that happened outside the window)
MouseDownHeld(p) == listeners # <<>> /\ Press(p, MaxPresses)

\* a press within 50 ms of a release: the delayed reset of that release has
\* not run yet
MouseDownSoon(p) == timers > 0 /\ listeners = <<>> /\ Press(p, MaxPresses)

\* the listeners whose gesture origin is more than the threshold away from p
DraggedListeners(p) == {i \in DOMAIN listeners : wasDragging(listeners[i], p)}

\* document mousemove: every registered handleMouseMove runs, in order; the
\* setters of a viewer that is no longer rendered do nothing
MouseMove(p) ==
    /\ appLoaded /\ ~clickPending
    /\ listeners # <<>>
    /\ IF DraggedListeners(p) = {} \/ ~Mounted
       THEN UNCHANGED <<isDragging, dragOffset, hoveredFolder>>
       ELSE LET last == CHOOSE i \in DraggedListeners(p) :
                            \A j \in DraggedListeners(p) : j <= i
            IN /\ isDragging' = TRUE
               /\ dragOffset' = Pt(p.x - listeners[last].x, p.y - listeners[last].y)
               /\ hoveredFolder' = IF ~FoldersInDom THEN hoveredFolder
                                   ELSE IF HitFolder(p) = "none" THEN "null"
                                   ELSE HitFolder(p)
    /\ gestureMoved' = (gestureMoved \/ DraggedListeners(p) # {})
    /\ lastOp' = Op("mouseMove", "", "")
    /\ UNCHANGED <<viewerVars, gestureVars, appVars, store, deckUpdateCalls,
                   loadResult, raised, prevOp, importVars>>

\* the folder handleMouseUp passes to moveCardToFolder, "none" when it makes no call
DropTarget(p) ==
    IF DraggedListeners(p) # {} /\ FoldersInDom THEN HitFolder(p) ELSE "none"

\* only the handlers of the latest press are removed
listenersAfterMouseUp_latestOnly == SubSeq(listeners, 1, Len(listeners) - 1)

\* every handleMouseUp removes itself and its handleMouseMove
listenersAfterMouseUp == <<>>

\* document mouseup: every registered handleMouseUp runs, schedules its delayed
\* reset and removes its two listeners; click says whether the browser then
\* dispatches a click event to the card
MouseUp(p) ==
    /\ appLoaded /\ ~clickPending
    /\ listeners # <<>>
    /\ IF DropTarget(p) = "none"
       THEN /\ UNCHANGED viewerVars
            /\ lastOp' = Op("mouseUp", "none", "")
       ELSE /\ moveCardToFolder(DropTarget(p))
            /\ Len(studyCards') + Len(reviewCards') + Len(nailedCards')
                  <= Len(selectedDeck.cards) + MaxDuplicates
            /\ lastOp' = Op("mouseUp", DropTarget(p),
                            IF HasCurrentCard THEN currentCard ELSE "")
    /\ timers' = IF Mounted THEN timers + Len(listeners) ELSE timers
    /\ listeners' = listenersAfterMouseUp
    /\ \E click \in BOOLEAN :
          clickPending' = (click /\ Len(getActiveCards') # 0 /\ HasCurrentCard')
    /\ gestureMoved' = (gestureMoved /\ clickPending')
    /\ UNCHANGED <<isDragging, dragOffset, hoveredFolder, appVars, store,
                   deckUpdateCalls, loadResult, raised, prevOp, importVars>>

\* onClick of the card
handleCardClick ==
    /\ clickPending
    /\ clickPending' = FALSE
    /\ isFlipped' = IF ~isDragging THEN ~isFlipped ELSE isFlipped
    /\ gestureMoved' = FALSE
    /\ lastOp' = Op("cardClick", "", "")
    /\ UNCHANGED <<currentIndex, showGrid, activeFolder, reviewCards, nailedCards,
                   studyCards, gridFlippedCards, isDragging, dragOffset,
                   hoveredFolder, listeners, timers,
                   appVars, store, deckUpdateCalls, loadResult, raised, prevOp, importVars>>

\* the callback of setTimeout(..., 50) in handleMouseUp
DragResetTimer ==
    /\ timers > 0 /\ ~clickPending
    /\ timers' = timers - 1
    /\ isDragging' = FALSE
    /\ dragOffset' = ZeroOffset
    /\ hoveredFolder' = "null"
    /\ lastOp' = Op("dragReset", "", "")
    /\ UNCHANGED <<viewerVars, gestureMoved, listeners, clickPending, appVars, store,
                   deckUpdateCalls, loadResult, raised, prevOp, importVars>>

\* frame of every button of the viewer
ViewerFrame ==
    UNCHANGED <<dragVars, gestureVars, appVars, store, deckUpdateCalls, loadResult, raised, prevOp, importVars>>

\* onClick of a folder in card view
FolderClick(folder) ==
    /\ Idle /\ CardView
    /\ IF Len(IF folder = "review" THEN reviewCards ELSE nailedCards) > 0
       THEN switchToFolder(folder)
       ELSE UNCHANGED viewerVars
    /\ lastOp' = Op("folderClick", folder, "")
    /\ ViewerFrame

\* the Back to Study buttons (header of the main view, empty-folder view)
BackToStudy ==
    /\ Idle /\ Mounted
    /\ activeFolder # "study"
    /\ switchToFolder("study")
    /\ lastOp' = Op("backToStudy", "study", "")
    /\ ViewerFrame

\* the Grid View / Card View button
ToggleGrid ==
    /\ Idle /\ MainView
    /\ showGrid' = ~showGrid
    /\ lastOp' = Op("toggleGrid", "", "")
    /\ UNCHANGED <<currentIndex, isFlipped, activeFolder, reviewCards, nailedCards,
                   studyCards, gridFlippedCards>>
    /\ ViewerFrame

GridCardClick(index) ==
    /\ Idle /\ MainView /\ showGrid
    /\ index \in 0..(Len(studyCards) - 1)
    /\ gridCardClick(index)
    /\ lastOp' = Op("gridCardClick", "", studyCards[index + 1])
    /\ ViewerFrame

ToggleGridCard(cardId) ==
    /\ Idle /\ MainView /\ showGrid
    /\ cardId \in GridCards
    /\ toggleGridCard(cardId)
    /\ lastOp' = Op("toggleGridCard", "", cardId)
    /\ ViewerFrame

\* disabled attribute of the Previous and Next buttons
NavDisabled == Len(studyCards) <= 1

NextCard ==
    /\ Idle /\ CardView /\ ~NavDisabled
    /\ nextCard
    /\ lastOp' = Op("nextCard", "", "")
    /\ ViewerFrame

PrevCard ==
    /\ Idle /\ CardView /\ ~NavDisabled
    /\ prevCard
    /\ lastOp' = Op("prevCard", "", "")
    /\ ViewerFrame

\* the Show Answer / Show Question button
FlipButton ==
    /\ Idle /\ CardView
    /\ isFlipped' = ~isFlipped
    /\ lastOp' = Op("flip", "", "")
    /\ UNCHANGED <<currentIndex, showGrid, activeFolder, reviewCards, nailedCards,
                   studyCards, gridFlippedCards>>
    /\ ViewerFrame

\* Reset All (main view) and Start Over (completion view)
ResetCards ==
    /\ Idle /\ Mounted
    /\ MainView \/ activeFolder = "study"
    /\ resetCards
    /\ lastOp' = Op("resetCards", "", "")
    /\ ViewerFrame

----------------------------------------------------------------------------
(* App shell *)

\* useEffect on mount
LoadEffect ==
    /\ ~appLoaded
    /\ appLoaded' = TRUE
    /\ decks' = loadDecks(store)
    /\ lastOp' = Op("loadEffect", "", "")
    /\ UNCHANGED <<viewerVars, dragVars, gestureVars, currentView, selectedDeck,
                   store, deckUpdateCalls, loadResult, raised, prevOp, importVars>>

\* setCurrentView(v) by a sidebar button
ViewChange(v) ==
    /\ currentView' = v
    /\ IF Mounted THEN ViewerUnmount ELSE UNCHANGED <<viewerVars, dragVars, timers>>
    /\ lastOp' = Op("setCurrentView", v, "")
    /\ UNCHANGED <<listeners, clickPending, decks, selectedDeck, appLoaded,
                   store, deckUpdateCalls, loadResult, raised, prevOp, importVars>>

\* sidebar buttons My Decks, Create Deck, Import Cards
SetCurrentView(v) == Idle /\ ViewChange(v)

\* a sidebar button operated from the keyboard while a mouse button is held
\* on the card
SetCurrentViewHeld(v) ==
    /\ appLoaded /\ ~clickPending
    /\ Mounted /\ listeners # <<>>
    /\ ViewChange(v)

\* decks offered for study: every deck in the list view, the first three
\* in the sidebar
StudyChoices ==
    {decks[i] : i \in {j \in DOMAIN decks : currentView = "deck-list" \/ j <= 3}}

handleStudyDeck(deck) ==
    /\ Idle
    /\ deck \in StudyChoices
    /\ IF Len(deck.cards) = 0
       THEN UNCHANGED <<viewerVars, dragVars, timers, currentView, selectedDeck>>
       ELSE /\ selectedDeck' = deck
            /\ currentView' = "study"
            /\ IF Mounted
               THEN UNCHANGED <<viewerVars, dragVars, timers>>
               ELSE ViewerMount(deck.cards)
    /\ lastOp' = Op("studyDeck", deck.id, "")
    /\ UNCHANGED <<listeners, clickPending, decks, appLoaded, store,
                   deckUpdateCalls, loadResult, raised, prevOp, importVars>>

\* App's handleDeckUpdate, passed to the viewer as onDeckUpdate
handleDeckUpdate(updatedDeck) ==
    [i \in DOMAIN decks |-> IF decks[i].id = updatedDeck.id THEN updatedDeck ELSE decks[i]]

\* onExit that hands the deck, reduced to the study pile, to onDeckUpdate
onExit_writeBack ==
    /\ Idle /\ Mounted
    /\ currentView' = "deck-list"
    /\ selectedDeck' = NoDeck
    /\ decks' = handleDeckUpdate([selectedDeck EXCEPT !.cards = studyCards])
    /\ deckUpdateCalls' = 1
    /\ ViewerUnmount
    /\ lastOp' = Op("exit", "", "")
    /\ UNCHANGED <<listeners, clickPending, appLoaded, store, loadResult, raised, prevOp, importVars>>

\* the onExit prop
onExit ==
    /\ Idle /\ Mounted
    /\ currentView' = "deck-list"
    /\ selectedDeck' = NoDeck
    /\ ViewerUnmount
    /\ lastOp' = Op("exit", "", "")
    /\ UNCHANGED <<listeners, clickPending, decks, appLoaded, store,
                   deckUpdateCalls, loadResult, raised, prevOp, importVars>>

\* handleDeleteDeck without the window.confirm
handleDeleteDeck_noConfirm(deckId, confirmed, writeOk) ==
    /\ Idle
    /\ currentView = "deck-list"
    /\ \E i \in DOMAIN decks : decks[i].id = deckId
    /\ store' = deleteDeck(store, deckId, writeOk)
    /\ decks' = SelectSeq(decks, LAMBDA d : d.id # deckId)
    /\ lastOp' = Op("deleteDeck", deckId, IF confirmed THEN "confirmed" ELSE "declined")
    /\ UNCHANGED <<viewerVars, dragVars, gestureVars, currentView, selectedDeck,
                   appLoaded, deckUpdateCalls, loadResult, raised, prevOp, importVars>>

handleDeleteDeck(deckId, confirmed, writeOk) ==
    /\ Idle
    /\ currentView = "deck-list"
    /\ \E i \in DOMAIN decks : decks[i].id = deckId
    /\ IF confirmed
       THEN /\ store' = deleteDeck(store, deckId, writeOk)
            /\ decks' = SelectSeq(decks, LAMBDA d : d.id # deckId)
       ELSE UNCHANGED <<store, decks>>
    /\ lastOp' = Op("deleteDeck", deckId, IF confirmed THEN "confirmed" ELSE "declined")
    /\ UNCHANGED <<viewerVars, dragVars, gestureVars, currentView, selectedDeck,
                   appLoaded, deckUpdateCalls, loadResult, raised, prevOp, importVars>>

----------------------------------------------------------------------------
(* App shell: import view *)

StatusWrongType == "Please upload a CSV or Excel file"
StatusProcessing == "Processing file..."
StatusImported == "Successfully imported cards"
StatusUnexpected == "An unexpected error occurred"

\* result.fileName?.replace(/\.[^/.]+$/, '') || 'Imported Deck'
deckNameOf(fileName) ==
    LET stem == IF indexOf(fileName, DOT, 1) # 0 /\ afterLastDot(fileName) # <<>>
                THEN SubSeq(fileName, 1, Len(fileName) - Len(afterLastDot(fileName)) - 1)
                ELSE fileName
    IN IF stem # <<>> THEN stem ELSE <<"Imported", SPACE, "Deck">>

\* createdAt of an imported deck
ImportTime == 5

\* the deck handleFileUpload builds from a successful result; n identifiers
\* were handed out before the file was parsed.  Description and tags are
\* read by nothing that is modelled.
newDeck(result, n) ==
    [id |-> generateId(n + Len(result.cards)),
     name |-> deckNameOf(result.fileName),
     cards |-> result.cards,
     createdAt |-> DateOf(ImportTime)]

\* onChange of the file input, up to the await; the input is disabled while
\* isLoading
handleFileUpload(file) ==
    /\ appLoaded
    /\ currentView = "import"
    /\ ~isLoading
    /\ nextId + idsGeneratedBy(file, nextId) + 1 <= MaxIds
    /\ IF ~validateFileType(file)
       THEN /\ uploadStatus' = StatusWrongType
            /\ UNCHANGED <<isLoading, uploads>>
       ELSE /\ isLoading' = TRUE
            /\ uploadStatus' = StatusProcessing
            /\ uploads' = Append(uploads, [file |-> file, decks |-> decks])
    /\ lastOp' = Op("fileUpload", IF validateFileType(file) THEN "accepted" ELSE "rejected", "")
    /\ UNCHANGED <<viewerVars, dragVars, gestureVars, appVars, store, deckUpdateCalls,
                   loadResult, raised, prevOp, importFile, importResult,
                   rowsExamined, nextId, exported>>

\* the finally block left out: the loading flag is lowered after a result only
uploadLoading_noFinally(rejected) == rejected

\* isLoading after the try statement of handleFileUpload
uploadLoading(rejected) == FALSE

\* handleFileUpload from the await on, for the oldest waiting call.  rejected:
\* the awaited promise rejects, for which the handler has its catch block.
\* The deck list is written from the decks the handler saw when it started.
uploadSettles(rejected, writeOk) ==
    /\ uploads # <<>>
    /\ LET up == Head(uploads)
           result == parseFile(up.file, nextId)
       IN /\ importFile' = up.file
          /\ rowsExamined' = rowsExaminedBy(up.file)
          /\ IF rejected
             THEN /\ uploadStatus' = StatusUnexpected
                  /\ UNCHANGED <<importResult, nextId, store, decks, currentView,
                                 viewerVars, dragVars, timers>>
             ELSE /\ importResult' = result
                  /\ IF result.success
                     THEN /\ nextId' = nextId + Len(result.cards) + 1
                          /\ store' = saveDeck(store, newDeck(result, nextId), writeOk)
                          /\ decks' = Append(up.decks, newDeck(result, nextId))
                          /\ uploadStatus' = StatusImported
                          /\ currentView' = "deck-list"
                          /\ IF Mounted THEN ViewerUnmount
                             ELSE UNCHANGED <<viewerVars, dragVars, timers>>
                     ELSE /\ uploadStatus' = result.error
                          /\ UNCHANGED <<nextId, store, decks, currentView,
                                         viewerVars, dragVars, timers>>
          /\ lastOp' = Op("uploadSettles",
                          IF rejected THEN "rejected"
                          ELSE IF result.success THEN "imported" ELSE "failed", "")
    /\ isLoading' = uploadLoading(rejected)
    /\ uploads' = Tail(uploads)
    /\ UNCHANGED <<listeners, clickPending, selectedDeck, appLoaded, deckUpdateCalls,
                   loadResult, raised, prevOp, exported>>

----------------------------------------------------------------------------
(* The application *)

\* the App before its first effect, on this stored item, and the file that
\* the importer is about to be given
InitFor(st, file) ==
    /\ currentIndex = 0
    /\ isFlipped = FALSE
    /\ showGrid = FALSE
    /\ activeFolder = "null"
    /\ reviewCards = <<>>
    /\ nailedCards = <<>>
    /\ studyCards = <<>>
    /\ gridFlippedCards = {}
    /\ isDragging = FALSE
    /\ dragOffset = ZeroOffset
    /\ hoveredFolder = "null"
    /\ gestureMoved = FALSE
    /\ listeners = <<>>
    /\ timers = 0
    /\ clickPending = FALSE
    /\ decks = <<>>
    /\ currentView = "deck-list"
    /\ selectedDeck = NoDeck
    /\ appLoaded = FALSE
    /\ store = st
    /\ deckUpdateCalls = 0
    /\ loadResult = <<>>
    /\ raised = FALSE
    /\ prevOp = Op("init", "", "")
    /\ lastOp = Op("init", "", "")
    /\ isLoading = FALSE
    /\ uploadStatus = ""
    /\ uploads = <<>>
    /\ importFile = file
    /\ importResult = NoResult
    /\ rowsExamined = 0
    /\ nextId = 0
    /\ exported = <<>>

InitWith(st) == InitFor(st, NoFile)

\* the events of a study session and the navigation around it
SessionNext ==
    \/ \E p \in PressPoints : MouseDown(p)
    \/ \E p \in PointerPoints : MouseMove(p)
    \/ \E p \in PointerPoints : MouseUp(p)
    \/ handleCardClick
    \/ DragResetTimer
    \/ \E folder \in {"review", "nailed"} : FolderClick(folder)
    \/ BackToStudy
    \/ ToggleGrid
    \/ \E index \in 0..(Len(studyCards) - 1) : GridCardClick(index)
    \/ NextCard
    \/ PrevCard
    \/ FlipButton
    \/ ResetCards
    \/ LoadEffect
    \/ \E v \in {"deck-list", "create", "import"} : SetCurrentView(v)
    \/ \E deck \in StudyChoices : handleStudyDeck(deck)
    \/ onExit

(* One deck of three cards is studied.  The per-card grid flips, which no  *)
(* handler reads, and deck deletion are left to AppSpec.                   *)
Init == InitWith(JSONStringify(<<DeckA, DeckE>>))
Next == SessionNext
Spec == Init /\ [][Next]_vars

(* The whole App over small decks: sessions on any of them, switched from  *)
(* the sidebar as well, grid flips and deck deletion.                      *)
AppInit == InitWith(JSONStringify(<<DeckB, DeckC>>))
AppNext ==
    \/ SessionNext
    \/ \E cardId \in GridCards : ToggleGridCard(cardId)
    \/ \E i \in DOMAIN decks, confirmed \in BOOLEAN, writeOk \in BOOLEAN :
          handleDeleteDeck(decks[i].id, confirmed, writeOk)
AppSpec == AppInit /\ [][AppNext]_vars

(* Drag gestures in detail: presses at two points of the card, releases at  *)
(* and around the threshold and the folder boxes, a press that follows a   *)
(* press, and the study view left while a button is held.                  *)
GesturePressPoints == {Pt(25, 20), Pt(27, 20)}
GesturePoints == {Pt(25, 20), Pt(18, 20), Pt(15, 20), Pt(10, 20), Pt(70, 20), Pt(25, 31)}

GestureNext ==
    \/ \E p \in GesturePressPoints : MouseDown(p)
    \/ \E p \in GesturePressPoints : MouseDownHeld(p)
    \/ \E p \in GesturePoints : MouseMove(p)
    \/ \E p \in GesturePoints : MouseUp(p)
    \/ handleCardClick
    \/ DragResetTimer
    \/ \E folder \in {"review", "nailed"} : FolderClick(folder)
    \/ BackToStudy
    \/ LoadEffect
    \/ \E v \in {"deck-list", "import"} : SetCurrentViewHeld(v)
    \/ \E deck \in StudyChoices : handleStudyDeck(deck)
GestureSpec == AppInit /\ [][GestureNext]_vars

(* Successive gestures: a press may follow a release before the delayed    *)
(* reset of that release has run.                                          *)
TimingNext ==
    \/ \E p \in GesturePressPoints : MouseDown(p)
    \/ \E p \in GesturePressPoints : MouseDownSoon(p)
    \/ \E p \in GesturePoints : MouseMove(p)
    \/ \E p \in GesturePoints : MouseUp(p)
    \/ handleCardClick
    \/ DragResetTimer
    \/ LoadEffect
    \/ \E i \in DOMAIN decks : handleStudyDeck(decks[i])
TimingSpec == AppInit /\ [][TimingNext]_vars

----------------------------------------------------------------------------
(* The persistence adapter called directly *)

\* a body without try / catch: what is thrown leaves the function
TryCatch_rethrow(throws) == throws

\* try { ... } catch (error) { console.error(...) }: whether an exception
\* thrown in the try block leaves the function
TryCatch(throws) == FALSE

StorageFrame ==
    /\ prevOp' = lastOp
    /\ UNCHANGED <<viewerVars, dragVars, gestureVars, appVars, deckUpdateCalls,
                   importVars>>

CallLoadDecks ==
    /\ loadResult' = loadDecks(store)
    /\ raised' = TryCatch(LoadThrows(store))
    /\ lastOp' = Op("loadDecks", "", "")
    /\ UNCHANGED store
    /\ StorageFrame

CallSaveDeck(deck, writeOk) ==
    /\ store' = saveDeck(store, deck, writeOk)
    /\ raised' = (TryCatch(LoadThrows(store)) \/ TryCatch(~writeOk))
    /\ lastOp' = Op("saveDeck", IF writeOk THEN "written" ELSE "dropped", deck.name)
    /\ UNCHANGED loadResult
    /\ StorageFrame

CallDeleteDeck(deckId, writeOk) ==
    /\ store' = deleteDeck(store, deckId, writeOk)
    /\ raised' = (TryCatch(LoadThrows(store)) \/ TryCatch(~writeOk))
    /\ lastOp' = Op("deleteDeck", IF writeOk THEN "written" ELSE "dropped", deckId)
    /\ UNCHANGED loadResult
    /\ StorageFrame

\* decks handed to saveDeck and identifiers handed to deleteDeck
SaveInputs == {DeckA, DeckA2, DeckB, DeckC}
DeleteInputs == {"dA", "dB", "dC"}

\* what the item may hold when the adapter is first called
StoredInputs ==
    {NoItem, UnparseableText, NotArrayJSON,
     JSONStringify(<<>>),
     JSONStringify(<<DeckA, DeckB>>),
     [kind |-> "array", items |-> <<DeckToJSON(DeckB), BadEntry>>]}

StoreInit == \E st \in StoredInputs : InitWith(st)
StoreNext ==
    \/ CallLoadDecks
    \/ \E deck \in SaveInputs, writeOk \in BOOLEAN : CallSaveDeck(deck, writeOk)
    \/ \E deckId \in DeleteInputs, writeOk \in BOOLEAN : CallDeleteDeck(deckId, writeOk)
StoreSpec == StoreInit /\ [][StoreNext]_vars

----------------------------------------------------------------------------
(* The file importer and exportDeck called directly *)

\* a direct call changes nothing of the App or of the store
ImporterFrame ==
    UNCHANGED <<viewerVars, dragVars, gestureVars, appVars, store, deckUpdateCalls,
                loadResult, prevOp, isLoading, uploadStatus, uploads>>

\* the parser callbacks without their try / catch
parseRejects_uncaught(file) ==
    /\ parserOf(file) = "excel"
    /\ file.fault = "parse" \/ (Len(file.sheet) >= 2 /\ headerThrows(file.sheet))

\* no exception thrown in the try block of a parser callback leaves it, so
\* the promise is never rejected
parseRejects(file) ==
    TryCatch(parserOf(file) = "excel"
             /\ (file.fault = "parse" \/ (Len(file.sheet) >= 2 /\ headerThrows(file.sheet))))

\* await parseFile(file)
ParseCall(file, name, tag) ==
    /\ LET result == parseFile(file, nextId)
           ids == IF result.success THEN Len(result.cards) ELSE 0
       IN /\ nextId + ids <= MaxIds
          /\ importResult' = result
          /\ nextId' = nextId + ids
    /\ importFile' = file
    /\ rowsExamined' = rowsExaminedBy(file)
    /\ raised' = parseRejects(file)
    /\ lastOp' = Op(name, parserOf(file), tag)
    /\ UNCHANGED exported
    /\ ImporterFrame

CallParseFile(file) == ParseCall(file, "parseFile", "")

CallExportDeck(deck) ==
    /\ exported' = exportDeck(deck)
    /\ lastOp' = Op("exportDeck", deck.id, "")
    /\ UNCHANGED <<importFile, importResult, rowsExamined, nextId, raised>>
    /\ ImporterFrame

\* the text exportDeck returned last, saved by downloadDeck as a .csv file
ExportedFile == File(<<"deck", "_", "flashcards", DOT, "csv">>, exported, <<>>, "none")

\* the exported file is imported again
CallParseExported ==
    /\ lastOp.op = "exportDeck"
    /\ ParseCall(ExportedFile, "parseExported", lastOp.arg)

\* header lines and data lines of CSV files
CsvHeaders ==
    {<<"Question", COMMA, "Answer", COMMA, "ImageUrl">>,
     <<SPACE, "Q", SPACE, COMMA, "A">>,
     <<"front", COMMA, "back", COMMA, "img">>,
     <<"question", COMMA, "q", COMMA, "answer">>,
     <<"name", COMMA, "value">>}


CsvLines ==
    {<<"x", COMMA, "y">>,
     <<SPACE, "x", SPACE, COMMA, "y", COMMA, "u">>,
     <<"x", COMMA, SPACE>>,
     <<SPACE, COMMA, "z", COMMA, "y">>,
     <<QUOTE, "x", QUOTE, QUOTE, "z", QUOTE, COMMA, QUOTE, "y", COMMA, "z", QUOTE>>,
     <<>>}

CsvTexts ==
    CsvHeaders \cup {join(<<h, a, b>>, NEWLINE) : h \in CsvHeaders, a \in CsvLines, b \in CsvLines}

CsvName == <<"deck", DOT, "csv">>
OkText == <<"Question", COMMA, "Answer", NEWLINE, "x", COMMA, "y">>

CsvFiles ==
    {File(CsvName, t, <<>>, "none") : t \in CsvTexts}
        \cup {File(<<"my", DOT, "deck", DOT, "CSV">>, OkText, <<>>, f) : f \in {"none", "read"}}
        \cup {File(CsvName, <<>>, <<>>, "none")}

\* header rows and data rows of spreadsheets
SheetHeaders ==
    {<<(<<"Question">>), <<"Answer">>, <<"ImageUrl">> >>,
     <<(<<"questions">>), <<"feedback">> >>,
     <<(<<"Q">>), <<SPACE, "A">> >>,
     <<(<<"Question">>), <<"notes">> >>,
     <<(<<"notes">>), <<"Answer">> >>,
     <<(<<"Question">>), Undefined, <<"Answer">> >>}

SheetRows ==
    {<<(<<SPACE, "x">>), <<"y", SPACE>>, <<"u">> >>,
     <<(<<"x">>)>>,
     <<Undefined, <<"y">> >>}

Sheets ==
    {<<>>, <<(<<>>), <<(<<"x">>), <<"y">> >> >>}
        \cup {<<h>> : h \in SheetHeaders}
        \cup {<<h, a>> : h \in SheetHeaders, a \in SheetRows}
        \cup {<<h, a, b>> : h \in SheetHeaders, a \in SheetRows, b \in SheetRows}

OkSheet == <<(<<(<<"Question">>), <<"Answer">> >>), <<(<<"x">>), <<"y">> >> >>

ExcelFiles ==
    {File(<<"deck", DOT, "xlsx">>, <<>>, sh, "none") : sh \in Sheets}
        \cup {File(<<"deck", DOT, "xls">>, <<>>, OkSheet, f) : f \in {"none", "read", "parse"}}
        \cup {File(<<"a", DOT, "b", DOT, "Xlsx">>, <<>>, OkSheet, "none")}

\* names that end in none of the three extensions, on readable CSV content
OtherNames ==
    {<<"notes", DOT, "txt">>, <<"deck", DOT, "csv", DOT, "pdf">>, <<"deck", DOT>>,
     <<"csv">>, <<"deck">>, <<"xlsx", DOT, "csvx">>}

OtherFiles == {File(nm, OkText, OkSheet, "none") : nm \in OtherNames}

FileInputs == CsvFiles \cup ExcelFiles \cup OtherFiles

\* decks handed to exportDeck
ExportCards ==
    {Card("k1", <<"x">>, <<"y">>, Undefined),
     Card("k2", <<"x", QUOTE, "z">>, <<"y">>, <<"u">>),
     Card("k3", <<QUOTE>>, <<"y", COMMA, SPACE, "z">>, Undefined),
     Card("k4", <<"x", NEWLINE, "z">>, <<QUOTE, "y", QUOTE>>, <<"u", DOT, "v">>),
     Card("k5", <<"x">>, <<"y">>, <<"u", QUOTE, COMMA, "v">>)}

ExportInputs ==
    {Deck("x" \o c.id, <<"deck">>, <<c>>, 4) : c \in ExportCards}
        \cup {Deck("x" \o c.id \o d.id, <<"deck">>, <<c, d>>, 4) :
                  c \in ExportCards, d \in ExportCards}

(* The importer is given one file, any of FileInputs, again and again. *)
ImportInit == \E file \in FileInputs : InitFor(NoItem, file)
ImportNext == CallParseFile(importFile)
ImportSpec == ImportInit /\ [][ImportNext]_vars

ExportNext ==
    \/ \E deck \in ExportInputs : CallExportDeck(deck)
    \/ CallParseExported
ExportSpec == InitWith(NoItem) /\ [][ExportNext]_vars

(* The import view: uploads that wait for the parser while decks are       *)
(* deleted and views change.                                               *)
StoredCard == Card("s1", <<"x">>, <<"y">>, Undefined)
DeckS == Deck("dS", <<"stored">>, <<StoredCard>>, 1)

HeaderOnlyText == <<"Question", COMMA, "Answer">>
NoAnswerSheet == <<(<<(<<"Question">>), <<"notes">> >>), <<(<<"x">>), <<"y">> >> >>

UploadInputs ==
    {File(CsvName, OkText, <<>>, "none"),
     File(CsvName, OkText, <<>>, "read"),
     File(CsvName, HeaderOnlyText, <<>>, "none"),
     File(<<"deck", DOT, "xlsx">>, <<>>, NoAnswerSheet, "none"),
     File(<<"notes", DOT, "txt">>, OkText, OkSheet, "none"),
     File(<<"csv">>, OkText, OkSheet, "none")}

UploadInit == InitWith(JSONStringify(<<DeckS>>))
UploadNext ==
    \/ LoadEffect
    \/ \E v \in {"deck-list", "import"} : SetCurrentView(v)
    \/ \E file \in UploadInputs : handleFileUpload(file)
    \/ \E rejected \in BOOLEAN, writeOk \in BOOLEAN : uploadSettles(rejected, writeOk)
    \/ \E i \in DOMAIN decks, confirmed \in BOOLEAN, writeOk \in BOOLEAN :
          handleDeleteDeck(decks[i].id, confirmed, writeOk)
UploadSpec == UploadInit /\ [][UploadNext]_vars

(* The type check of the import view next to the dispatch of parseFile:    *)
(* the same files are uploaded and handed to the importer directly.        *)
TypeCheckNext ==
    \/ LoadEffect
    \/ \E v \in {"deck-list", "import"} : SetCurrentView(v)
    \/ \E file \in UploadInputs : handleFileUpload(file)
    \/ \E rejected \in BOOLEAN : uploadSettles(rejected, TRUE)
    \/ \E file \in UploadInputs : CallParseFile(file)
TypeCheckSpec == UploadInit /\ [][TypeCheckNext]_vars

(* Uploads alone.  The browser delivers the outcome of every read it was   *)
(* asked for, so the handler that has waited longest is resumed; only      *)
(* uploadSettles shortens the queue of waiting handlers.                   *)
uploadResumed == uploads # <<>> /\ uploads' = Tail(uploads)

UploadLiveNext ==
    \/ LoadEffect
    \/ SetCurrentView("import")
    \/ \E file \in UploadInputs : handleFileUpload(file)
    \/ \E rejected \in BOOLEAN, writeOk \in BOOLEAN : uploadSettles(rejected, writeOk)
UploadLiveSpec ==
    /\ UploadInit
    /\ [][UploadLiveNext]_vars
    /\ WF_uploads(uploadResumed)

----------------------------------------------------------------------------
(* Properties of the study session *)

\* the pile a folder name stands for; the study pile for "study" and for the
\* folder name of a session that has just started
Pile(name) ==
    CASE name = "review" -> reviewCards
      [] name = "nailed" -> nailedCards
      [] OTHER -> studyCards

SourceName == IF activeFolder \in {"review", "nailed"} THEN activeFolder ELSE "study"
OtherName(a, b) == CHOOSE n \in {"study", "review", "nailed"} : n # a /\ n # b

Count(card, pile) == Cardinality({i \in DOMAIN pile : pile[i] = card})
TotalCards == Len(studyCards) + Len(reviewCards) + Len(nailedCards)
AllPileCards == Range(studyCards) \cup Range(reviewCards) \cup Range(nailedCards)
DeckCards == Range(selectedDeck.cards)

\* C1: while a session is shown, every card of the deck is in exactly one of
\* the three piles: in no two piles, not twice in a pile, and not missing.
C1_Partition ==
    Mounted =>
        \A card \in DeckCards :
            Count(card, studyCards) + Count(card, reviewCards)
                + Count(card, nailedCards) = 1

\* a release that hands the current card of pile SourceName to another pile
DropOnOtherPile(p) ==
    /\ MouseUp(p)
    /\ DropTarget(p) # "none"
    /\ HasCurrentCard
    /\ DropTarget(p) # SourceName

\* C2: a release inside the box of pile Q with the current card C in the
\* active pile P, P other than Q, takes C out of P, makes it the last
\* element of Q, where it occurs once, leaves it in no other pile, keeps the
\* order of all other cards and keeps the number of cards.
C2_DropMovesCard ==
    [][\A p \in PointerPoints :
          DropOnOtherPile(p) =>
              LET Q == DropTarget(p)
                  P == SourceName
                  R == OtherName(P, Q)
                  C == currentCard
              IN /\ Count(C, Pile(P)') = 0
                 /\ Pile(Q)' = Append(Pile(Q), C)
                 /\ Count(C, Pile(Q)') = 1
                 /\ Count(C, Pile(R)') = 0
                 /\ Pile(P)' = newActiveCards
                 /\ Pile(R)' = Pile(R)
                 /\ TotalCards' = TotalCards]_vars

\* C3: after Reset the study pile is the deck's card sequence, review and
\* mastered are empty, the index is 0, the question side is shown, the
\* study pile is active and grid view is off.
C3_ResetRestores ==
    lastOp.op = "resetCards" =>
        /\ studyCards = selectedDeck.cards
        /\ reviewCards = <<>>
        /\ nailedCards = <<>>
        /\ currentIndex = 0
        /\ ~isFlipped
        /\ activeFolder = "study"
        /\ ~showGrid

\* Reset has run in a session on the two-card deck
C3_Witness ==
    /\ Mounted
    /\ lastOp.op = "resetCards"
    /\ selectedDeck = DeckB
    /\ studyCards = <<"b1", "b2">>

PilesUnchanged == UNCHANGED <<studyCards, reviewCards, nailedCards>>

\* C7: on an active pile of n > 0 cards with index i < n, Next leaves index
\* (i+1) mod n and Previous (i-1+n) mod n, each undoes the other, no pile
\* changes, and on one card the index stays 0; on an empty active pile the
\* two handlers leave index and face as they are.
C7_Navigation ==
    [][LET n == Len(getActiveCards)
           i == currentIndex
       IN /\ (NextCard /\ n > 0 /\ i < n) =>
                 /\ currentIndex' = (i + 1) % n
                 /\ PrevIndex(currentIndex', n) = i
                 /\ PilesUnchanged
                 /\ (n = 1 => currentIndex' = 0)
          /\ (PrevCard /\ n > 0 /\ i < n) =>
                 /\ currentIndex' = (i - 1 + n) % n
                 /\ NextIndex(currentIndex', n) = i
                 /\ PilesUnchanged
                 /\ (n = 1 => currentIndex' = 0)
          /\ (n = 0) =>
                 /\ IndexAfterNext = currentIndex
                 /\ IndexAfterPrev = currentIndex
                 /\ FlippedAfterNav = isFlipped]_vars

\* Next has wrapped around on a pile of three cards
C7_Witness ==
    /\ lastOp.op = "nextCard"
    /\ Len(getActiveCards) = 3
    /\ currentIndex = 0
    /\ activeFolder = "study"

\* C8: after a card is selected in grid view the single-card view is shown
\* and the current card is the selected card.
C8_GridSelect ==
    lastOp.op = "gridCardClick" =>
        /\ ~showGrid
        /\ HasCurrentCard
        /\ currentCard = lastOp.card

\* C9: grid view shows the cards of all three piles; opening and closing it
\* and flipping a grid card change no pile, not the index and not the active
\* pile; flipping grid card X changes the grid flip of X only.
C9_GridProjection ==
    [][/\ (MainView /\ showGrid) => GridCards = AllPileCards
       /\ ToggleGrid =>
              /\ PilesUnchanged
              /\ UNCHANGED <<currentIndex, activeFolder>>
       /\ \A cardId \in GridCards :
              ToggleGridCard(cardId) =>
                  /\ PilesUnchanged
                  /\ UNCHANGED <<currentIndex, activeFolder>>
                  /\ \A other \in AllPileCards \ {cardId} :
                         (other \in gridFlippedCards') = (other \in gridFlippedCards)
                  /\ (cardId \in gridFlippedCards') = (cardId \notin gridFlippedCards)]_vars

\* the handlers of the viewer, by the name they leave in lastOp
SessionOps ==
    {"mouseDown", "mouseMove", "mouseUp", "cardClick", "dragReset", "folderClick",
     "backToStudy", "toggleGrid", "gridCardClick", "toggleGridCard", "nextCard",
     "prevCard", "flip", "resetCards", "exit"}

----------------------------------------------------------------------------
(* Properties of the persistence adapter *)

HasId(ds, id) == \E i \in DOMAIN ds : ds[i].id = id
WellFormed(s) == s.kind = "array" /\ \A i \in DOMAIN s.items : s.items[i].ok

\* loadDecks() after the step is loadDecks() before it with deck upserted
Upserted(deck) ==
    LET before == loadDecks(store)
        after == loadDecks(store')
    IN /\ Cardinality({i \in DOMAIN after : after[i].id = deck.id}) = 1
       /\ \E i \in DOMAIN after : after[i] = deck
       /\ IF HasId(before, deck.id)
          THEN /\ Len(after) = Len(before)
               /\ \A i \in DOMAIN before :
                      after[i] = IF before[i].id = deck.id THEN deck ELSE before[i]
          ELSE /\ Len(after) = Len(before) + 1
               /\ after[Len(after)] = deck
               /\ SubSeq(after, 1, Len(before)) = before
       /\ saveDeck(store', deck, TRUE) = store'

\* C4 as stated: every saveDeck(D) is an upsert by identifier, the same
\* applied twice as once.
C4_SaveUpserts ==
    [][\A deck \in SaveInputs, writeOk \in BOOLEAN :
          CallSaveDeck(deck, writeOk) => Upserted(deck)]_vars

\* C4 amended: saveDeck(D) is an upsert by identifier, the same applied twice
\* as once, when its storage write succeeds; when the write fails the stored
\* collection is left as it was.
C4_SaveUpsertsWhenWritten ==
    [][\A deck \in SaveInputs :
          /\ CallSaveDeck(deck, TRUE) => Upserted(deck)
          /\ CallSaveDeck(deck, FALSE) => store' = store]_vars

\* an edited deck A has replaced deck A in front of deck B
C4_Witness ==
    /\ lastOp = Op("saveDeck", "written", "A2")
    /\ loadDecks(store) = <<DeckA2, DeckB>>

NoDeckWithId(s, id) == ~HasId(loadDecks(s), id)

C6_LoadNeverRaises ==
    [][CallLoadDecks =>
          /\ store' = store
          /\ ~raised'
          /\ WellFormed(store) =>
                 /\ JSONStringify(loadResult') = store
                 /\ \A i \in DOMAIN loadResult' : loadResult'[i].createdAt.t = "Date"
          /\ ~WellFormed(store) => loadResult' = <<>>]_vars

\* loadDecks has run on an array that holds a malformed entry
C6_Witness ==
    /\ lastOp.op = "loadDecks"
    /\ store.kind = "array"
    /\ \E i \in DOMAIN store.items : ~store.items[i].ok
    /\ loadResult = <<>>
    /\ ~raised

----------------------------------------------------------------------------
(* Properties of the file importer and of exportDeck *)

\* the first non-empty value among the columns of these names
FirstOf(row, names) ==
    IF \E i \in DOMAIN names : Column(row, names[i]) # <<>>
    THEN Column(row, names[CHOOSE i \in DOMAIN names :
                               /\ Column(row, names[i]) # <<>>
                               /\ \A j \in 1..(i - 1) : Column(row, names[j]) = <<>>])
    ELSE <<>>

QuestionNames == <<(<<"question">>), <<"q">>, <<"front">> >>
AnswerNames == <<(<<"answer">>), <<"a">>, <<"back">> >>

RowQualifies(row) ==
    trim(FirstOf(row, QuestionNames)) # <<>> /\ trim(FirstOf(row, AnswerNames)) # <<>>

\* C11: CSV import gives one card per data row whose question and answer
\* are non-empty after trimming, in row order, with the trimmed texts and
\* both counters 0, and nothing for any other row; without such a row the
\* result is a failure with the error 'No valid flashcards found' and without
\* a card list.
C11_CsvImport ==
    (lastOp.op = "parseFile" /\ lastOp.arg = "csv" /\ importFile.fault = "none") =>
        LET data == csvData(importFile.text)
            good == {i \in DOMAIN data : RowQualifies(data[i])}
            nth(k) == CHOOSE i \in good : Cardinality({j \in good : j < i}) = k - 1
        IN IF good = {}
           THEN /\ ~importResult.success
                /\ importResult.error = "No valid flashcards found"
                /\ "cards" \notin DOMAIN importResult
           ELSE /\ importResult.success
                /\ Len(importResult.cards) = Cardinality(good)
                /\ \A k \in 1..Cardinality(good) :
                       /\ importResult.cards[k].question
                              = trim(FirstOf(data[nth(k)], QuestionNames))
                       /\ importResult.cards[k].answer
                              = trim(FirstOf(data[nth(k)], AnswerNames))
                       /\ importResult.cards[k].correctCount = 0
                       /\ importResult.cards[k].incorrectCount = 0

\* a CSV file of two data rows has given one card: the first row with its
\* texts trimmed, the second row skipped for its blank answer
C11_Witness ==
    /\ lastOp.op = "parseFile" /\ lastOp.arg = "csv"
    /\ importResult.success
    /\ Len(csvData(importFile.text)) = 2
    /\ Column(csvData(importFile.text)[1], <<"question">>) = <<SPACE, "x", SPACE>>
    /\ Column(csvData(importFile.text)[2], <<"answer">>) = <<SPACE>>
    /\ Len(importResult.cards) = 1
    /\ importResult.cards[1].question = <<"x">>
    /\ importResult.cards[1].imageUrl = <<"u">>

\* a header cell that names the question column, the answer column
QuestionLike(cell) == cell # Undefined /\ isQuestionHeader(trim(toLowerCase(cell)))
AnswerLike(cell) == cell # Undefined /\ isAnswerHeader(trim(toLowerCase(cell)))

\* the sheet has a header row, and no question column or no answer column in it
LacksColumn(sheet) ==
    /\ Len(sheet) >= 1
    /\ \/ \A j \in DOMAIN sheet[1] : ~QuestionLike(sheet[1][j])
       \/ \A j \in DOMAIN sheet[1] : ~AnswerLike(sheet[1][j])

\* C12: importing a spreadsheet whose header row has no question-like or no
\* answer-like column resolves to a failure with an error message and without
\* cards, no data row is examined and no identifier is generated, whatever
\* the data rows hold.
C12_MissingColumn ==
    [][(/\ CallParseFile(importFile)
        /\ parserOf(importFile) = "excel"
        /\ LacksColumn(importFile.sheet)) =>
           /\ ~raised'
           /\ ~importResult'.success
           /\ importResult'.error # ""
           /\ "cards" \notin DOMAIN importResult'
           /\ rowsExamined' = 0
           /\ nextId' = nextId]_vars

\* a sheet with a Question column, no answer column and two data rows was
\* turned down for its header
C12_Witness ==
    /\ lastOp.op = "parseFile" /\ lastOp.arg = "excel"
    /\ importFile.fault = "none"
    /\ Len(importFile.sheet) = 3
    /\ importFile.sheet[1] = <<(<<"Question">>), <<"notes">> >>
    /\ importFile.sheet[2] = <<(<<SPACE, "x">>), <<"y", SPACE>>, <<"u">> >>
    /\ importResult = Failure("Excel file must have \"question\" and \"answer\" columns", importFile)
    /\ rowsExamined = 0
    /\ nextId = 0

\* the deck of ExportInputs with this identifier
ExportedDeck(id) == CHOOSE d \in ExportInputs : d.id = id

\* question and answer are non-empty and carry no blank at either end
TrimmedCard(card) ==
    /\ card.question # <<>> /\ trim(card.question) = card.question
    /\ card.answer # <<>> /\ trim(card.answer) = card.answer

\* a field wrapped in double quotes, the quotes inside it doubled
QuotedField(s) == <<QUOTE>> \o doubleQuotes(s) \o <<QUOTE>>

\* question, answer and image reference of every card, in order
Triples(cards) ==
    [i \in DOMAIN cards |-> <<cards[i].question, cards[i].answer, cards[i].imageUrl>>]

\* C13: for a deck whose cards have trimmed non-empty question and answer,
\* the exported text is the header Question,Answer,ImageUrl followed by one
\* line per card of three fields, each wrapped in double quotes with the
\* quotes inside it doubled, and importing that text as a CSV file gives the
\* same sequence of (question, answer, imageUrl).
C13_ExportRoundTrip ==
    (/\ lastOp.op = "parseExported"
     /\ \A i \in DOMAIN ExportedDeck(lastOp.card).cards :
            TrimmedCard(ExportedDeck(lastOp.card).cards[i])) =>
        LET cards == ExportedDeck(lastOp.card).cards
            line(c) == join(<<QuotedField(c.question), QuotedField(c.answer),
                              QuotedField(ImageUrlOrEmpty(c))>>, COMMA)
        IN /\ exported = join(<<exportHeader>> \o [i \in DOMAIN cards |-> line(cards[i])],
                              NEWLINE)
           /\ importResult.success
           /\ Triples(importResult.cards) = Triples(cards)

\* C14: parseFile never rejects: whatever the file and whatever fails while
\* it is read or decoded, the promise resolves to a success with a non-empty
\* card list and no error, or to a failure with an error message, the file
\* name and no card list.
C14_ParseResolves ==
    lastOp.op = "parseFile" =>
        /\ ~raised
        /\ importResult.fileName = importFile.name
        /\ IF importResult.success
           THEN /\ importResult.cards # <<>>
                /\ "error" \notin DOMAIN importResult
           ELSE /\ importResult.error # ""
                /\ "cards" \notin DOMAIN importResult

\* a spreadsheet that the decoder throws on has given a failure result
C14_Witness ==
    /\ lastOp.op = "parseFile" /\ lastOp.arg = "excel"
    /\ importFile.fault = "parse"
    /\ importResult = Failure("Error parsing Excel file", importFile)
    /\ ~raised

----------------------------------------------------------------------------
(* Properties of the import view *)

\* the text after the last dot of a name, lower-cased; a name without a dot
\* has no such text
TextAfterLastDot(name) ==
    IF indexOf(name, DOT, 1) = 0 THEN <<>> ELSE toLowerCase(afterLastDot(name))

UnsupportedResult(file) ==
    Failure("Unsupported file format. Please upload a CSV or Excel file.", file)

\* C15: a file whose extension, the text after the last dot of its name
\* without regard to case, is not csv, xlsx or xls fails at once with the
\* unsupported-format error and is handed to no parser; validateFileType is
\* true for exactly the files parseFile hands to a parser; an upload turned
\* down by the type check reaches no parser and changes neither the deck
\* list nor the store.
C15_UnsupportedType ==
    [][\A file \in UploadInputs :
          /\ (CallParseFile(file) /\ TextAfterLastDot(file.name) \notin allowedExtensions) =>
                 /\ importResult' = UnsupportedResult(file)
                 /\ lastOp'.arg = "none"
                 /\ rowsExamined' = 0
          /\ CallParseFile(file) => (validateFileType(file) <=> lastOp'.arg # "none")
          /\ (handleFileUpload(file) /\ ~validateFileType(file)) =>
                 /\ UNCHANGED <<uploads, isLoading, decks, store>>
                 /\ uploadStatus' = StatusWrongType]_vars

----------------------------------------------------------------------------
(* Properties of the App shell *)

\* C16: a delete request removes the deck from the persisted collection and
\* from the deck list only when the user confirms: declined, it changes
\* neither; confirmed, it takes the deck off the list and, its write
\* succeeding, out of the store; and no other step drops a listed or stored
\* deck.
C16_DeleteGated ==
    [][/\ \A i \in DOMAIN decks, writeOk \in BOOLEAN :
              /\ handleDeleteDeck(decks[i].id, FALSE, writeOk) => UNCHANGED <<store, decks>>
              /\ handleDeleteDeck(decks[i].id, TRUE, writeOk) =>
                     /\ ~HasId(decks', decks[i].id)
                     /\ writeOk => NoDeckWithId(store', decks[i].id)
       /\ \A id \in {"dB", "dC"} :
              (\/ HasId(decks, id) /\ ~HasId(decks', id)
               \/ HasId(loadDecks(store), id) /\ ~HasId(loadDecks(store'), id)) =>
                  lastOp' = Op("deleteDeck", id, "confirmed")]_vars

\* deck B was deleted on confirmation, then a request to delete deck C was
\* declined
C16_Witness ==
    /\ lastOp = Op("deleteDeck", "dC", "declined")
    /\ decks = <<DeckC>>
    /\ loadDecks(store) = <<DeckC>>

----------------------------------------------------------------------------
(* Properties of the drag gesture *)

\* p is more than the threshold away, on some axis, from the origin of a
\* press that has not seen its release
BeyondThreshold(p) ==
    \E i \in DOMAIN listeners :
        \/ Abs(p.x - listeners[i].x) > DragThreshold
        \/ Abs(p.y - listeners[i].y) > DragThreshold

InFolderBox(p) == InRect(p, ReviewRect) \/ InRect(p, NailedRect)

\* C17: a release moves the current card only if its position is more than
\* 10 px from the origin of the gesture on at least one axis and inside the
\* box of the review or the mastered folder; a release within 10 px on both
\* axes, or outside both boxes, changes no pile, not the index and not the
\* flip state, also when the pointer was beyond the threshold earlier in the
\* gesture.
C17_ReleaseThreshold ==
    [][\A p \in GesturePoints :
          MouseUp(p) =>
              /\ ~PilesUnchanged => (BeyondThreshold(p) /\ InFolderBox(p))
              /\ ~(BeyondThreshold(p) /\ InFolderBox(p)) =>
                     /\ PilesUnchanged
                     /\ UNCHANGED <<currentIndex, isFlipped>>]_vars

\* the pointer was dragged over the review folder and the button was then
\* released where no card is moved
C17_Witness ==
    /\ Mounted
    /\ lastOp = Op("mouseUp", "none", "")
    /\ isDragging
    /\ hoveredFolder = "review"
    /\ studyCards = selectedDeck.cards
    /\ reviewCards = <<>>
    /\ nailedCards = <<>>

\* C18: drag listeners are registered only between a press on the card and
\* the next release: only a press adds one (exactly one pair per press), and
\* after a release none remains, whether one or several presses preceded it
\* and whether or not the study view was left during the gesture.
C18_ListenersReleased ==
    [][/\ (\A p \in GesturePoints : MouseUp(p) => listeners' = <<>>)
       /\ (lastOp'.op = "mouseUp" => listeners' = <<>>)
       /\ (listeners' # listeners =>
               \/ lastOp'.op = "mouseUp"
               \/ /\ lastOp'.op = "mouseDown"
                  /\ Len(listeners') = Len(listeners) + 1
                  /\ SubSeq(listeners', 1, Len(listeners)) = listeners)]_vars

\* the study view was left while a press was pending, and the release then
\* removed every listener
C18_Witness ==
    /\ lastOp.op = "mouseUp"
    /\ ~Mounted
    /\ listeners = <<>>
    /\ timers = 0
    /\ currentView = "deck-list"

----------------------------------------------------------------------------
(* Properties of the import view *)

FinalStatus(s) == s # StatusProcessing /\ s # ""

\* C19: every upload that passed the type check finishes: whatever the awaited
\* parse gives (success, structured failure, rejection), the handler lowers
\* the loading flag and replaces the processing message by a success or a
\* failure message.
C19_UploadFinishes ==
    /\ [](lastOp.op = "uploadSettles" => (~isLoading /\ FinalStatus(uploadStatus)))
    /\ (isLoading ~> (~isLoading /\ uploads = <<>> /\ FinalStatus(uploadStatus)))

\* an accepted file was parsed into a deck and the import view was left with
\* the loading flag lowered
C19_Witness ==
    /\ lastOp = Op("uploadSettles", "imported", "")
    /\ importResult.success
    /\ ~isLoading
    /\ uploadStatus = StatusImported
    /\ currentView = "deck-list"

----------------------------------------------------------------------------
(* Properties of the index after a move *)

\* what C20 says of one release that moves the card at currentIndex
IndexFollowsMove ==
    LET i == currentIndex
        n == Len(getActiveCards)
    IN /\ i < n - 1 =>
              /\ currentIndex' = i
              /\ HasCurrentCard'
              /\ currentCard' = getActiveCards[i + 2]
       /\ i = n - 1 => currentIndex' = 0
       /\ Len(getActiveCards') > 0 => currentIndex' < Len(getActiveCards')
       /\ ~isFlipped'

\* C20: after the card at index i has been moved out of an active pile of
\* length n, the index is still i when i < n-1, so that the current card is
\* the card that followed the moved one, and 0 when i = n-1; the index is
\* smaller than the new length of the pile unless the pile is empty, and the
\* question side is shown.
C20_IndexAfterMove ==
    [][\A p \in PointerPoints : DropOnOtherPile(p) => IndexFollowsMove]_vars

----------------------------------------------------------------------------
(* Properties of a drop on the active pile *)

\* a release that drops the current card on the box of the pile it is in
DropOnActivePile(p) ==
    /\ MouseUp(p)
    /\ DropTarget(p) \in {"review", "nailed"}
    /\ DropTarget(p) = activeFolder
    /\ HasCurrentCard

\* C21: a drop of the current card on the box of the active pile loses no
\* card: the card is afterwards in that pile exactly once and the three
\* piles together hold as many cards as before.
C21_SamePileDrop ==
    [][\A p \in PointerPoints :
          DropOnActivePile(p) =>
              /\ Count(currentCard, Pile(activeFolder)') = 1
              /\ TotalCards' = TotalCards]_vars

----------------------------------------------------------------------------
(* Properties of the session shown for a selected deck *)

\* C22: the session shown after a non-empty deck D was selected for study,
\* from the deck list or from the sidebar and also while another deck is
\* studied, starts with the study pile equal to D's cards, review and
\* mastered empty and index 0; and the cards in the three piles are always
\* cards of the deck the study view is given.
C22_SessionOfSelectedDeck ==
    Mounted =>
        /\ AllPileCards \subseteq DeckCards
        /\ (lastOp.op = "studyDeck" /\ lastOp.arg = selectedDeck.id) =>
               /\ studyCards = selectedDeck.cards
               /\ reviewCards = <<>>
               /\ nailedCards = <<>>
               /\ currentIndex = 0

----------------------------------------------------------------------------
(* Properties of Reset as a new session *)

\* the controller state of a session that has just started on the deck the
\* viewer is given
FreshSession ==
    /\ studyCards = selectedDeck.cards
    /\ reviewCards = <<>>
    /\ nailedCards = <<>>
    /\ currentIndex = 0
    /\ ~isFlipped
    /\ activeFolder = "null"
    /\ ~showGrid
    /\ gridFlippedCards = {}

\* C23: the controller state after Reset (piles, index, flip, active pile,
\* grid flag, per-card grid flips) is the state of a freshly started session
\* on the same deck, so that any operations after Reset give what they give
\* on a fresh session.
C23_ResetIsFreshSession ==
    lastOp.op = "resetCards" => FreshSession

----------------------------------------------------------------------------
(* Properties of pile switches *)

\* what every call of switchToFolder leaves behind
SwitchedTo(folder) ==
    /\ activeFolder' = folder
    /\ currentIndex' = 0
    /\ ~isFlipped'
    /\ ~showGrid'
    /\ PilesUnchanged

\* C24: every pile switch sets the index to 0, shows the question side,
\* closes grid view and changes no pile; a click on the review or mastered
\* folder switches only when that pile is non-empty, so that right after a
\* switch made by a folder click the active pile has a current card.
C24_PileSwitch ==
    [][/\ \A folder \in {"review", "nailed"} :
              FolderClick(folder) =>
                  IF Len(Pile(folder)) > 0
                  THEN SwitchedTo(folder) /\ HasCurrentCard'
                  ELSE UNCHANGED viewerVars
       /\ BackToStudy => SwitchedTo("study")]_vars

\* the review folder was clicked while it held a card and is now the active
\* pile, with other cards left in the study pile
C24_Witness ==
    /\ lastOp = Op("folderClick", "review", "")
    /\ activeFolder = "review"
    /\ Len(reviewCards) > 0
    /\ Len(studyCards) >= 2
    /\ currentIndex = 0
    /\ ~isFlipped

----------------------------------------------------------------------------
(* Properties of a failed storage write *)

\* what a call whose write fails leaves behind
WriteDropped ==
    /\ ~raised'
    /\ store' = store

\* C25: when the storage write fails during saveDeck or deleteDeck, no
\* exception reaches the caller, the write is not made good by a retry, and
\* the persisted collection is what it was before the call.
C25_FailedWriteDropped ==
    [][/\ \A deck \in SaveInputs : CallSaveDeck(deck, FALSE) => WriteDropped
       /\ \A deckId \in DeleteInputs : CallDeleteDeck(deckId, FALSE) => WriteDropped]_vars

\* the write of deleteDeck for a stored deck failed and the deck is still
\* stored
C25_Witness ==
    /\ lastOp = Op("deleteDeck", "dropped", "dA")
    /\ loadDecks(store) = <<DeckA, DeckB>>
    /\ ~raised

----------------------------------------------------------------------------
(* Properties of the current index *)

\* C26: while a session is shown and the active pile is non-empty, the index
\* is smaller than the length of the active pile, so that a current card
\* exists, after any moves, navigation, pile switches, grid selections and
\* resets.
C26_IndexInRange ==
    (Mounted /\ Len(getActiveCards) > 0) => HasCurrentCard

----------------------------------------------------------------------------
(* Properties of the deck list next to the store *)

Ids(ds) == [i \in DOMAIN ds |-> ds[i].id]

\* an App operation has completed: the initial load, a confirmed delete, an
\* import that has finished
AppOpCompleted ==
    \/ lastOp.op = "loadEffect"
    \/ lastOp.op = "deleteDeck" /\ lastOp.card = "confirmed"
    \/ lastOp.op = "uploadSettles"

\* C27: after every completed App operation, however an import in flight is
\* interleaved with deletes, view changes and further imports, the deck list
\* in memory holds exactly the decks of the persisted collection: the same
\* identifiers, no deleted deck back in the list and no imported deck missing.
C27_ListMatchesStore ==
    AppOpCompleted => Ids(decks) = Ids(loadDecks(store))

----------------------------------------------------------------------------
(* Properties of the decks a storage call is not about *)

\* the well-formed deck entries of a stored value
StoredEntries(s) ==
    IF s.kind = "array" THEN {s.items[i] : i \in {j \in DOMAIN s.items : s.items[j].ok}}
    ELSE {}

\* every stored deck with another identifier is stored unaltered afterwards
OthersKept(id) ==
    \A e \in StoredEntries(store) : e.id # id => e \in StoredEntries(store')

\* C28: saveDeck(D) and deleteDeck(id) neither remove nor alter a stored
\* deck whose identifier is not D.id or id, whatever the store held before,
\* a text that does not parse or a malformed entry among valid ones included.
C28_OtherDecksKept ==
    [][/\ \A deck \in SaveInputs, writeOk \in BOOLEAN :
              CallSaveDeck(deck, writeOk) => OthersKept(deck.id)
       /\ \A deckId \in DeleteInputs, writeOk \in BOOLEAN :
              CallDeleteDeck(deckId, writeOk) => OthersKept(deckId)]_vars

----------------------------------------------------------------------------
(* Properties of the navigation controls *)

\* C29: in single-card view Previous and Next are enabled exactly when the
\* active pile has more than one card, whichever pile is active and whatever
\* the other piles hold.
C29_NavEnabled ==
    CardView => (~NavDisabled <=> Len(getActiveCards) > 1)

----------------------------------------------------------------------------
(* Properties of the click that follows a drag *)

\* C30: a click delivered right after a gesture in which the pointer moved
\* more than 10 px from its origin does not toggle the flip state, and the
\* drag state is cleared by the delayed reset only when no gesture is in
\* progress, for every timing of successive gestures, a press within 50 ms
\* of the previous release included.
C30_ClickAfterDrag ==
    [][/\ (handleCardClick /\ gestureMoved) => isFlipped' = isFlipped
       /\ DragResetTimer => listeners = <<>>]_vars

====
